---- MODULE Spec2Model ----
(***************************************************************************)
(* Model of conrod_glium/examples/support/mod.rs:                          *)
(*   - run_loop: the redraw-rate limiting event-loop closure, driven by a  *)
(*     glutin (winit) event loop that delivers events in cycles            *)
(*       NewEvents, window/device events, MainEventsCleared,               *)
(*       RedrawRequested, RedrawEventsCleared, wait;                       *)
(*   - convert_event / convert_key / convert_mouse_button: the translation *)
(*     of glutin events to conrod input.                                   *)
(***************************************************************************)
EXTENDS Integers, Sequences, FiniteSets, TLC

\* ------------------------------------------------------------------------
\* Bounds of the model (not program constants)
\* ------------------------------------------------------------------------
\* the clock (milliseconds since start) runs from 0 to MaxTime
MaxTime == 40
\* the clock advances in steps of TickMs milliseconds
TickMs == 5
\* convert_event is applied to at most MaxTranslations events in a run
MaxTranslations == 2

\* ------------------------------------------------------------------------
\* Program constants
\* ------------------------------------------------------------------------
\* let sixteen_ms = std::time::Duration::from_millis(16);
sixteen_ms == 16

\* Option<T>
None == <<>>
Some(x) == <<x>>
unwrap(o) == o[1]

\* event_loop::ControlFlow
Poll == <<"Poll">>
Wait == <<"Wait">>
WaitUntil(t) == <<"WaitUntil", t>>
Exit == <<"Exit">>

\* the glutin events the closure distinguishes, and the others it receives
EvInit == "NewEvents(Init)"
EvResumeTimeReached == "NewEvents(ResumeTimeReached)"
EvWaitCancelled == "NewEvents(WaitCancelled)"
EvWindowEvent == "WindowEvent"
EvDeviceEvent == "DeviceEvent"
EvMainEventsCleared == "MainEventsCleared"
EvRedrawRequested == "RedrawRequested"
EvRedrawEventsCleared == "RedrawEventsCleared"

Min(a, b) == IF a < b THEN a ELSE b

VARIABLES
    \* ---- run_loop's captured state
    next_update,        \* Option<Instant>
    ui_update_needed,   \* bool
    \* ---- the platform (glutin event loop and window)
    control_flow,       \* *control_flow, as last written by the closure
    now,                \* std::time::Instant::now(), in ms
    phase,              \* position of the event loop in its cycle
    redraw_requested,   \* a window.request_redraw() is outstanding
    os_invalidated,     \* the OS invalidated the window contents
    \* ---- observation of the run (history)
    last,               \* what the latest invocation of the closure did
    since_commit,       \* Option: ms since the latest SetUi, capped at sixteen_ms
    commit_nr,          \* needs_redraw reported by the latest SetUi
    commit_event,       \* the event whose handling made the latest SetUi
    redraws_since,      \* Redraw callbacks since the latest SetUi, capped at 2
    unrequested_redraw, \* a RedrawRequested not caused by request_redraw since the latest SetUi
    ever_requested,     \* some Event callback has set should_update_ui
    handled,            \* number of closure invocations, capped at 3
    first_requested,    \* should_update_ui of the very first Event callback
    \* ---- convert_event's input and output
    given_event,        \* the glutin event passed to convert_event
    window,             \* the window passed to convert_event (physical size, scale factor)
    result,             \* Option<Input> returned by convert_event
    prev_keycode,       \* Option: key code of the KeyboardInput translated before
    prev_key,           \* Option: the Key it was translated to
    prev_kind,          \* kind of the event translated just before
    prev_input,         \* Option: the Input variant it was translated to
    translations        \* number of events translated so far

schedVars == <<next_update, ui_update_needed, control_flow, now, phase,
               redraw_requested, os_invalidated, last, since_commit, commit_nr,
               commit_event, redraws_since, unrequested_redraw, ever_requested, handled,
               first_requested>>
convVars == <<given_event, window, result, prev_keycode, prev_key, prev_kind,
              prev_input, translations>>
vars == <<schedVars, convVars>>

\* ------------------------------------------------------------------------
\* run_loop
\* ------------------------------------------------------------------------

\* mutants of should_set_ui_on_main_events_cleared: one conjunct dropped
should_set_ui_ignoring_deadline(nu, needed) == needed
should_set_ui_ignoring_request(nu, needed) == nu = None

\* let should_set_ui_on_main_events_cleared = next_update.is_none() && ui_update_needed;
should_set_ui_on_main_events_cleared(nu, needed) == nu = None /\ needed

\* mutant of sets_ui: the Init arm is missing
sets_ui_without_init(event, on_main_events_cleared) ==
    \/ event = EvResumeTimeReached
    \/ event = EvMainEventsCleared /\ on_main_events_cleared

\* match (&event, should_set_ui_on_main_events_cleared) { Init | ResumeTimeReached | (MainEventsCleared, true) => .. }
sets_ui(event, on_main_events_cleared) ==
    \/ event = EvInit
    \/ event = EvResumeTimeReached
    \/ event = EvMainEventsCleared /\ on_main_events_cleared

\* mutant of next_update_after_set_ui: the deadline is not cleared
next_update_never_cleared(t, needs_redraw) == Some(t + sixteen_ms)

\* next_update = Some(Instant::now() + sixteen_ms); ... if !needs_redraw { next_update = None; }
next_update_after_set_ui(t, needs_redraw) ==
    IF needs_redraw THEN Some(t + sixteen_ms) ELSE None

\* mutant of control_flow_for: the loop polls when there is no deadline
control_flow_polling(nu) == IF nu # None THEN WaitUntil(unwrap(nu)) ELSE Poll

\* if let Some(next_update) = next_update { WaitUntil(next_update) } else { Wait }
control_flow_for(nu) == IF nu # None THEN WaitUntil(unwrap(nu)) ELSE Wait

\* mutant of or_assign: the flag is assigned, not OR-ed
or_assign_overwriting(flag, should_update_ui) == should_update_ui

\* ui_update_needed |= should_update_ui;
or_assign(flag, should_update_ui) == flag \/ should_update_ui

\* mutant of returns_early: the exit branch is not taken
returns_early_never(should_exit) == FALSE

\* if should_exit { *control_flow = ControlFlow::Exit; return; }
returns_early(should_exit) == should_exit

\* mutants of requests_redraw: the redraw is always / never requested
requests_redraw_always(needs_redraw) == TRUE
requests_redraw_never(needs_redraw) == FALSE

\* if needs_redraw { display.gl_window().window().request_redraw(); }
requests_redraw(needs_redraw) == needs_redraw

\* mutant of redraw_calls: Redraw is invoked for MainEventsCleared too
redraw_calls_on_cleared(event) ==
    IF event \in {EvRedrawRequested, EvMainEventsCleared} THEN <<"Redraw">> ELSE <<>>

\* the callback requests issued while handling a RedrawRequested / other event
redraw_calls(event) == IF event = EvRedrawRequested THEN <<"Redraw">> ELSE <<>>

NoIteration ==
    [event |-> "none", should_update_ui |-> FALSE, should_exit |-> FALSE,
     needs_redraw |-> FALSE, calls |-> <<>>,
     pre_next_update |-> None, pre_ui_update_needed |-> FALSE,
     needed |-> FALSE, prev_since |-> None, prev_nr |-> FALSE,
     prev_commit_event |-> "none",
     prev_redraws |-> 0, prev_unrequested |-> FALSE]

\* One invocation of the closure passed to event_loop.run, for the event
\* `event`; should_update_ui, should_exit and needs_redraw are what the
\* callback writes through its out-parameters; pending is the window's
\* outstanding redraw request as the closure starts.
run_loop(event, should_update_ui, should_exit, needs_redraw, pending) ==
    LET needed == or_assign(ui_update_needed, should_update_ui)
        return == returns_early(should_exit)
        set_ui == ~return
                  /\ sets_ui(event, should_set_ui_on_main_events_cleared(next_update, needed))
        nr     == set_ui /\ needs_redraw
        request == set_ui /\ requests_redraw(needs_redraw)
        redraws == IF return THEN <<>> ELSE redraw_calls(event)
        calls  == <<"Event">>
                  \o (IF set_ui THEN <<"SetUi">> ELSE <<>>)
                  \o (IF request THEN <<"request_redraw">> ELSE <<>>)
                  \o redraws
    IN  /\ ui_update_needed' = IF set_ui THEN FALSE ELSE needed
        /\ next_update' = IF set_ui THEN next_update_after_set_ui(now, needs_redraw)
                          ELSE next_update
        /\ control_flow' = IF return THEN Exit ELSE control_flow_for(next_update')
        /\ redraw_requested' = (pending \/ request)
        /\ last' = [event |-> event, should_update_ui |-> should_update_ui,
                    should_exit |-> should_exit, needs_redraw |-> nr,
                    calls |-> calls,
                    pre_next_update |-> next_update,
                    pre_ui_update_needed |-> ui_update_needed,
                    needed |-> needed,
                    prev_since |-> since_commit, prev_nr |-> commit_nr,
                    prev_commit_event |-> commit_event,
                    prev_redraws |-> redraws_since,
                    prev_unrequested |-> unrequested_redraw]
        /\ since_commit' = IF set_ui THEN Some(0) ELSE since_commit
        /\ commit_nr' = IF set_ui THEN nr ELSE commit_nr
        /\ commit_event' = IF set_ui THEN event ELSE commit_event
        /\ redraws_since' = Min((IF set_ui THEN 0 ELSE redraws_since) + Len(redraws), 2)
        /\ unrequested_redraw' =
              \/ ~set_ui /\ unrequested_redraw
              \/ event = EvRedrawRequested /\ ~redraw_requested
        /\ ever_requested' = (ever_requested \/ should_update_ui)
        /\ handled' = Min(handled + 1, 3)
        /\ first_requested' = IF handled = 0 THEN should_update_ui ELSE first_requested
        /\ UNCHANGED now

\* ------------------------------------------------------------------------
\* The platform: glutin's event loop delivering events to the closure
\* ------------------------------------------------------------------------
Deliver(event, to, pending) ==
    \E should_update_ui \in BOOLEAN, should_exit \in BOOLEAN, needs_redraw \in BOOLEAN :
        /\ run_loop(event, should_update_ui, should_exit, needs_redraw, pending)
        /\ phase' = IF control_flow' = Exit THEN "exited" ELSE to

\* the loop starts: NewEvents(StartCause::Init)
DeliverInit ==
    /\ phase = "start"
    /\ Deliver(EvInit, "events", redraw_requested)
    /\ UNCHANGED <<os_invalidated, convVars>>

\* the wait set by ControlFlow::WaitUntil(d) ran to its deadline
DeliverResumeTimeReached ==
    /\ phase = "wait"
    /\ control_flow[1] = "WaitUntil" /\ now >= control_flow[2]
    /\ Deliver(EvResumeTimeReached, "events", redraw_requested)
    /\ UNCHANGED <<os_invalidated, convVars>>

\* an event arrived while waiting (before the deadline, if there is one)
DeliverWaitCancelled ==
    /\ phase = "wait"
    /\ \/ control_flow = Wait
       \/ control_flow[1] = "WaitUntil" /\ now < control_flow[2]
    /\ Deliver(EvWaitCancelled, "events", redraw_requested)
    /\ UNCHANGED <<os_invalidated, convVars>>

\* a window event of the batch
DeliverWindowEvent ==
    /\ phase = "events"
    /\ Deliver(EvWindowEvent, "events", redraw_requested)
    /\ UNCHANGED <<os_invalidated, convVars>>

\* a device (or user, suspend/resume) event of the batch
DeliverDeviceEvent ==
    /\ phase = "events"
    /\ Deliver(EvDeviceEvent, "events", redraw_requested)
    /\ UNCHANGED <<os_invalidated, convVars>>

\* the OS invalidates the window contents (resize, expose) during the batch
Expose ==
    /\ phase = "events"
    /\ ~os_invalidated
    /\ os_invalidated' = TRUE
    /\ UNCHANGED <<next_update, ui_update_needed, control_flow, now, phase,
                   redraw_requested, last, since_commit, commit_nr, commit_event,
                   redraws_since, unrequested_redraw, ever_requested, handled,
                   first_requested, convVars>>

\* all events of the batch have been delivered
DeliverMainEventsCleared ==
    /\ phase = "events"
    /\ Deliver(EvMainEventsCleared, "redraw", redraw_requested)
    /\ UNCHANGED <<os_invalidated, convVars>>

\* the window is to be redrawn: one RedrawRequested for all pending causes
DeliverRedrawRequested ==
    /\ phase = "redraw"
    /\ redraw_requested \/ os_invalidated
    /\ Deliver(EvRedrawRequested, "redraw", FALSE)
    /\ os_invalidated' = FALSE
    /\ UNCHANGED convVars

\* the cycle ends; the loop then waits as control_flow says
DeliverRedrawEventsCleared ==
    /\ phase = "redraw"
    /\ ~(redraw_requested \/ os_invalidated)
    /\ Deliver(EvRedrawEventsCleared, "wait", redraw_requested)
    /\ UNCHANGED <<os_invalidated, convVars>>

\* time passes
Tick ==
    /\ phase # "exited"
    /\ now + TickMs <= MaxTime
    /\ now' = now + TickMs
    /\ since_commit' = IF since_commit = None THEN None
                       ELSE Some(Min(unwrap(since_commit) + TickMs, sixteen_ms))
    /\ UNCHANGED <<next_update, ui_update_needed, control_flow, phase,
                   redraw_requested, os_invalidated, last, commit_nr, commit_event,
                   redraws_since, unrequested_redraw, ever_requested, handled,
                   first_requested, convVars>>

ConvIdle ==
    /\ given_event = [kind |-> "none"]
    /\ window = [inner_size |-> <<0, 0>>, scale_factor |-> 1]
    /\ result = None
    /\ prev_keycode = None
    /\ prev_key = None
    /\ prev_kind = "none"
    /\ prev_input = None
    /\ translations = 0

SchedInit ==
    /\ next_update = None
    /\ ui_update_needed = FALSE
    /\ control_flow = Poll
    /\ now = 0
    /\ phase = "start"
    /\ redraw_requested = FALSE
    /\ os_invalidated = FALSE
    /\ last = NoIteration
    /\ since_commit = None
    /\ commit_nr = FALSE
    /\ commit_event = "none"
    /\ redraws_since = 0
    /\ unrequested_redraw = FALSE
    /\ ever_requested = FALSE
    /\ handled = 0
    /\ first_requested = FALSE

Init == SchedInit /\ ConvIdle

\* ------------------------------------------------------------------------
\* convert_event, convert_key, convert_mouse_button
\* ------------------------------------------------------------------------
\* A real number r (f64, f32) is represented by the integer 4 * r, which is
\* exact for the values used here: whole pixels divided by a scale factor
\* of 1 or 2, and halved once.
px(n) == 4 * n

\* the arms of convert_key's match, in source order.  names: the
\* VirtualKeyCode variants the pattern names; binds: the pattern is an
\* identifier or `_`, which matches every value (the first arm's pattern
\* is the bare identifier Key0, not the path VirtualKeyCode::Key0).
convert_key_arms == <<
    [names |-> {"Key0"}, binds |-> TRUE, key |-> "D0"],
    [names |-> {"Key1"}, binds |-> FALSE, key |-> "D1"],
    [names |-> {"Key2"}, binds |-> FALSE, key |-> "D2"],
    [names |-> {"Key3"}, binds |-> FALSE, key |-> "D3"],
    [names |-> {"Key4"}, binds |-> FALSE, key |-> "D4"],
    [names |-> {"Key5"}, binds |-> FALSE, key |-> "D5"],
    [names |-> {"Key6"}, binds |-> FALSE, key |-> "D6"],
    [names |-> {"Key7"}, binds |-> FALSE, key |-> "D7"],
    [names |-> {"Key8"}, binds |-> FALSE, key |-> "D8"],
    [names |-> {"Key9"}, binds |-> FALSE, key |-> "D9"],
    [names |-> {"A"}, binds |-> FALSE, key |-> "A"],
    [names |-> {"B"}, binds |-> FALSE, key |-> "B"],
    [names |-> {"C"}, binds |-> FALSE, key |-> "C"],
    [names |-> {"D"}, binds |-> FALSE, key |-> "D"],
    [names |-> {"E"}, binds |-> FALSE, key |-> "E"],
    [names |-> {"F"}, binds |-> FALSE, key |-> "F"],
    [names |-> {"G"}, binds |-> FALSE, key |-> "G"],
    [names |-> {"H"}, binds |-> FALSE, key |-> "H"],
    [names |-> {"I"}, binds |-> FALSE, key |-> "I"],
    [names |-> {"J"}, binds |-> FALSE, key |-> "J"],
    [names |-> {"K"}, binds |-> FALSE, key |-> "K"],
    [names |-> {"L"}, binds |-> FALSE, key |-> "L"],
    [names |-> {"M"}, binds |-> FALSE, key |-> "M"],
    [names |-> {"N"}, binds |-> FALSE, key |-> "N"],
    [names |-> {"O"}, binds |-> FALSE, key |-> "O"],
    [names |-> {"P"}, binds |-> FALSE, key |-> "P"],
    [names |-> {"Q"}, binds |-> FALSE, key |-> "Q"],
    [names |-> {"R"}, binds |-> FALSE, key |-> "R"],
    [names |-> {"S"}, binds |-> FALSE, key |-> "S"],
    [names |-> {"T"}, binds |-> FALSE, key |-> "T"],
    [names |-> {"U"}, binds |-> FALSE, key |-> "U"],
    [names |-> {"V"}, binds |-> FALSE, key |-> "V"],
    [names |-> {"W"}, binds |-> FALSE, key |-> "W"],
    [names |-> {"X"}, binds |-> FALSE, key |-> "X"],
    [names |-> {"Y"}, binds |-> FALSE, key |-> "Y"],
    [names |-> {"Z"}, binds |-> FALSE, key |-> "Z"],
    [names |-> {"Apostrophe"}, binds |-> FALSE, key |-> "Unknown"],
    [names |-> {"Backslash"}, binds |-> FALSE, key |-> "Backslash"],
    [names |-> {"Back"}, binds |-> FALSE, key |-> "Backspace"],
    [names |-> {"Delete"}, binds |-> FALSE, key |-> "Delete"],
    [names |-> {"Comma"}, binds |-> FALSE, key |-> "Comma"],
    [names |-> {"Down"}, binds |-> FALSE, key |-> "Down"],
    [names |-> {"End"}, binds |-> FALSE, key |-> "End"],
    [names |-> {"Return"}, binds |-> FALSE, key |-> "Return"],
    [names |-> {"Equals"}, binds |-> FALSE, key |-> "Equals"],
    [names |-> {"Escape"}, binds |-> FALSE, key |-> "Escape"],
    [names |-> {"F1"}, binds |-> FALSE, key |-> "F1"],
    [names |-> {"F2"}, binds |-> FALSE, key |-> "F2"],
    [names |-> {"F3"}, binds |-> FALSE, key |-> "F3"],
    [names |-> {"F4"}, binds |-> FALSE, key |-> "F4"],
    [names |-> {"F5"}, binds |-> FALSE, key |-> "F5"],
    [names |-> {"F6"}, binds |-> FALSE, key |-> "F6"],
    [names |-> {"F7"}, binds |-> FALSE, key |-> "F7"],
    [names |-> {"F8"}, binds |-> FALSE, key |-> "F8"],
    [names |-> {"F9"}, binds |-> FALSE, key |-> "F9"],
    [names |-> {"F10"}, binds |-> FALSE, key |-> "F10"],
    [names |-> {"F11"}, binds |-> FALSE, key |-> "F11"],
    [names |-> {"F12"}, binds |-> FALSE, key |-> "F12"],
    [names |-> {"F13"}, binds |-> FALSE, key |-> "F13"],
    [names |-> {"F14"}, binds |-> FALSE, key |-> "F14"],
    [names |-> {"F15"}, binds |-> FALSE, key |-> "F15"],
    [names |-> {"Numpad0"}, binds |-> FALSE, key |-> "NumPad0"],
    [names |-> {"Numpad1"}, binds |-> FALSE, key |-> "NumPad1"],
    [names |-> {"Numpad2"}, binds |-> FALSE, key |-> "NumPad2"],
    [names |-> {"Numpad3"}, binds |-> FALSE, key |-> "NumPad3"],
    [names |-> {"Numpad4"}, binds |-> FALSE, key |-> "NumPad4"],
    [names |-> {"Numpad5"}, binds |-> FALSE, key |-> "NumPad5"],
    [names |-> {"Numpad6"}, binds |-> FALSE, key |-> "NumPad6"],
    [names |-> {"Numpad7"}, binds |-> FALSE, key |-> "NumPad7"],
    [names |-> {"Numpad8"}, binds |-> FALSE, key |-> "NumPad8"],
    [names |-> {"Numpad9"}, binds |-> FALSE, key |-> "NumPad9"],
    [names |-> {"NumpadComma", "NumpadDecimal"}, binds |-> FALSE, key |-> "NumPadDecimal"],
    [names |-> {"NumpadDivide"}, binds |-> FALSE, key |-> "NumPadDivide"],
    [names |-> {"NumpadMultiply"}, binds |-> FALSE, key |-> "NumPadMultiply"],
    [names |-> {"NumpadSubtract"}, binds |-> FALSE, key |-> "NumPadMinus"],
    [names |-> {"NumpadAdd"}, binds |-> FALSE, key |-> "NumPadPlus"],
    [names |-> {"NumpadEnter"}, binds |-> FALSE, key |-> "NumPadEnter"],
    [names |-> {"NumpadEquals"}, binds |-> FALSE, key |-> "NumPadEquals"],
    [names |-> {"LShift"}, binds |-> FALSE, key |-> "LShift"],
    [names |-> {"LControl"}, binds |-> FALSE, key |-> "LCtrl"],
    [names |-> {"LAlt"}, binds |-> FALSE, key |-> "LAlt"],
    [names |-> {"RShift"}, binds |-> FALSE, key |-> "RShift"],
    [names |-> {"RControl"}, binds |-> FALSE, key |-> "RCtrl"],
    [names |-> {"RAlt"}, binds |-> FALSE, key |-> "RAlt"],
    [names |-> {"Home"}, binds |-> FALSE, key |-> "Home"],
    [names |-> {"Insert"}, binds |-> FALSE, key |-> "Insert"],
    [names |-> {"Left"}, binds |-> FALSE, key |-> "Left"],
    [names |-> {"LBracket"}, binds |-> FALSE, key |-> "LeftBracket"],
    [names |-> {"Minus"}, binds |-> FALSE, key |-> "Minus"],
    [names |-> {"Numlock"}, binds |-> FALSE, key |-> "NumLockClear"],
    [names |-> {"PageDown"}, binds |-> FALSE, key |-> "PageDown"],
    [names |-> {"PageUp"}, binds |-> FALSE, key |-> "PageUp"],
    [names |-> {"Pause"}, binds |-> FALSE, key |-> "Pause"],
    [names |-> {"Period"}, binds |-> FALSE, key |-> "Period"],
    [names |-> {"Right"}, binds |-> FALSE, key |-> "Right"],
    [names |-> {"RBracket"}, binds |-> FALSE, key |-> "RightBracket"],
    [names |-> {"Semicolon"}, binds |-> FALSE, key |-> "Semicolon"],
    [names |-> {"Slash"}, binds |-> FALSE, key |-> "Slash"],
    [names |-> {"Space"}, binds |-> FALSE, key |-> "Space"],
    [names |-> {"Tab"}, binds |-> FALSE, key |-> "Tab"],
    [names |-> {"Up"}, binds |-> FALSE, key |-> "Up"],
    [names |-> {}, binds |-> TRUE, key |-> "Unknown"]
>>

\* fn convert_key(keycode: &VirtualKeyCode) -> Key: the first arm that matches
convert_key(keycode) ==
    LET matches(i) == convert_key_arms[i].binds \/ keycode \in convert_key_arms[i].names
        first == CHOOSE i \in 1..Len(convert_key_arms) :
                    matches(i) /\ \A j \in 1..(i - 1) : ~matches(j)
    IN  convert_key_arms[first].key

\* the key codes named by some arm of convert_key
NamedKeyCodes == UNION {convert_key_arms[i].names : i \in 1..Len(convert_key_arms)}
\* some of glutin's key codes that no arm names
UnnamedKeyCodes == {"F16", "F24", "Capital", "Grave", "LWin", "Snapshot", "VolumeUp", "Copy"}
VirtualKeyCode == NamedKeyCodes \cup UnnamedKeyCodes
\* the key codes for which a release is translated too
ReleasedKeyCodes == {"Key0", "Key1", "A", "Z", "Return", "F15", "NumpadComma", "Apostrophe", "F16"}

\* mutant of convert_mouse_button: the extra buttons are counted from 1
convert_mouse_button_from_one(button) ==
    CASE button = <<"Left">> -> "Left"
      [] button = <<"Right">> -> "Right"
      [] button = <<"Middle">> -> "Middle"
      [] button = <<"Other", 1>> -> "X1"
      [] button = <<"Other", 2>> -> "X2"
      [] button = <<"Other", 3>> -> "Button6"
      [] button = <<"Other", 4>> -> "Button7"
      [] button = <<"Other", 5>> -> "Button8"
      [] OTHER -> "Unknown"

\* fn convert_mouse_button(button: &MouseButton) -> conrod_core::input::MouseButton
convert_mouse_button(button) ==
    CASE button = <<"Left">> -> "Left"
      [] button = <<"Right">> -> "Right"
      [] button = <<"Middle">> -> "Middle"
      [] button = <<"Other", 0>> -> "X1"
      [] button = <<"Other", 1>> -> "X2"
      [] button = <<"Other", 2>> -> "Button6"
      [] button = <<"Other", 3>> -> "Button7"
      [] button = <<"Other", 4>> -> "Button8"
      [] OTHER -> "Unknown"

\* mutant of to_logical: the scale factor is not applied
to_logical_unscaled(v, scale_factor) == v

\* PhysicalSize / PhysicalPosition ::to_logical(scale_factor)
to_logical(v, scale_factor) == v \div scale_factor

\* const ARBITRARY_POINTS_PER_LINE_FACTOR: conrod_core::Scalar = 10.0;
ARBITRARY_POINTS_PER_LINE_FACTOR == 10

\* mutant of ignored_characters: backspace is passed on as text
ignored_characters_without_backspace == {127, 27, 13, 10, 9}

\* the control characters ReceivedCharacter maps to the empty string:
\* '\u{7f}' | '\u{1b}' | '\u{8}' | '\r' | '\n' | '\t'
ignored_characters == {127, 27, 8, 13, 10, 9}

\* mutant of ty: the y axis is not flipped
ty_not_flipped(y, win_h) == y - (win_h \div 2)

\* let tx = |x| x - win_w / 2.0;  let ty = |y| -(y - win_h / 2.0);
tx(x, win_w) == x - (win_w \div 2)
ty(y, win_h) == -(y - (win_h \div 2))

\* TouchPhase -> conrod_core::input::touch::Phase
convert_phase(touch_phase) ==
    CASE touch_phase = "Started" -> "Start"
      [] touch_phase = "Moved" -> "Move"
      [] touch_phase = "Cancelled" -> "Cancel"
      [] touch_phase = "Ended" -> "End"

\* mutant of keyboard_input: a missing key code is reported as Key::Unknown
keyboard_input_or_unknown(virtual_keycode, state) ==
    Some([input |-> IF state = "Pressed" THEN "Press" ELSE "Release",
          button |-> <<"Keyboard", IF virtual_keycode = None THEN "Unknown"
                                   ELSE convert_key(unwrap(virtual_keycode))>>])

\* input.virtual_keycode.map(|key| match input.state { Pressed => Press(..), Released => Release(..) })
keyboard_input(virtual_keycode, state) ==
    IF virtual_keycode = None THEN None
    ELSE Some([input |-> IF state = "Pressed" THEN "Press" ELSE "Release",
               button |-> <<"Keyboard", convert_key(unwrap(virtual_keycode))>>])

\* pub fn convert_event(given_event: &Event<()>, window: &Window) -> Option<Input>
convert_event(e, win) ==
    LET scale_factor == win.scale_factor
        win_w == to_logical(win.inner_size[1], scale_factor)
        win_h == to_logical(win.inner_size[2], scale_factor)
    IN  CASE e.kind = "WindowEvent::Resized" ->
                Some([input |-> "Resize",
                      width |-> to_logical(e.size[1], scale_factor),
                      height |-> to_logical(e.size[2], scale_factor)])
          [] e.kind = "WindowEvent::ReceivedCharacter" ->
                Some([input |-> "Text",
                      string |-> IF e.ch \in ignored_characters THEN <<>> ELSE <<e.ch>>])
          [] e.kind = "WindowEvent::Focused" ->
                Some([input |-> "Focus", focused |-> e.focused])
          [] e.kind = "WindowEvent::KeyboardInput" ->
                keyboard_input(e.virtual_keycode, e.state)
          [] e.kind = "WindowEvent::Touch" ->
                Some([input |-> "Touch",
                      phase |-> convert_phase(e.phase),
                      id |-> e.id,
                      xy |-> <<tx(to_logical(e.location[1], scale_factor), win_w),
                               ty(to_logical(e.location[2], scale_factor), win_h)>>])
          [] e.kind = "WindowEvent::CursorMoved" ->
                Some([input |-> "Motion", motion |-> "MouseCursor",
                      x |-> tx(to_logical(e.position[1], scale_factor), win_w),
                      y |-> ty(to_logical(e.position[2], scale_factor), win_h)])
          [] e.kind = "WindowEvent::MouseWheel" /\ e.delta[1] = "PixelDelta" ->
                Some([input |-> "Motion", motion |-> "Scroll",
                      x |-> to_logical(e.delta[2], scale_factor),
                      y |-> -to_logical(e.delta[3], scale_factor)])
          [] e.kind = "WindowEvent::MouseWheel" /\ e.delta[1] = "LineDelta" ->
                Some([input |-> "Motion", motion |-> "Scroll",
                      x |-> ARBITRARY_POINTS_PER_LINE_FACTOR * e.delta[2],
                      y |-> ARBITRARY_POINTS_PER_LINE_FACTOR * (-e.delta[3])])
          [] e.kind = "WindowEvent::MouseInput" ->
                Some([input |-> IF e.state = "Pressed" THEN "Press" ELSE "Release",
                      button |-> <<"Mouse", convert_mouse_button(e.button)>>])
          [] OTHER -> None

\* ---- the inputs convert_event is applied to
ElementState == {"Pressed", "Released"}
PhysicalSizes == {<<px(800), px(600)>>, <<px(3), px(5)>>}
PhysicalPositions == {<<px(0), px(0)>>, <<px(400), px(300)>>, <<px(7), px(-2)>>}
PixelDeltas == {<<px(0), px(-5)>>, <<px(3), px(4)>>}
LineDeltas == {<<px(1), px(1)>>, <<px(-2), px(0)>>}
Characters == {0, 8, 9, 10, 11, 13, 27, 32, 65, 97, 126, 127, 128, 233}
MouseButtons == {<<"Left">>, <<"Right">>, <<"Middle">>}
                \cup {<<"Other", n>> : n \in {0, 1, 2, 3, 4, 5, 255}}
Windows == {[inner_size |-> <<px(800), px(600)>>, scale_factor |-> 1],
            [inner_size |-> <<px(801), px(600)>>, scale_factor |-> 2]}
RawEvents ==
    {[kind |-> k] : k \in {"NewEvents", "MainEventsCleared", "RedrawRequested",
                           "DeviceEvent", "WindowEvent::CloseRequested",
                           "WindowEvent::Moved", "WindowEvent::CursorEntered",
                           "WindowEvent::ModifiersChanged"}}
    \cup {[kind |-> "WindowEvent::Resized", size |-> z] : z \in PhysicalSizes}
    \cup {[kind |-> "WindowEvent::ReceivedCharacter", ch |-> c] : c \in Characters}
    \cup {[kind |-> "WindowEvent::Focused", focused |-> b] : b \in BOOLEAN}
    \cup {[kind |-> "WindowEvent::KeyboardInput", virtual_keycode |-> k, state |-> "Pressed"] :
            k \in {None} \cup {Some(c) : c \in VirtualKeyCode}}
    \cup {[kind |-> "WindowEvent::KeyboardInput", virtual_keycode |-> k, state |-> "Released"] :
            k \in {None} \cup {Some(c) : c \in ReleasedKeyCodes}}
    \cup {[kind |-> "WindowEvent::Touch", phase |-> ph, location |-> l, id |-> 0] :
            ph \in {"Started", "Moved", "Cancelled", "Ended"}, l \in PhysicalPositions}
    \cup {[kind |-> "WindowEvent::Touch", phase |-> "Started", location |-> l, id |-> 1] :
            l \in PhysicalPositions}
    \cup {[kind |-> "WindowEvent::CursorMoved", position |-> l] : l \in PhysicalPositions}
    \cup {[kind |-> "WindowEvent::MouseWheel", delta |-> <<"PixelDelta", d[1], d[2]>>] :
            d \in PixelDeltas}
    \cup {[kind |-> "WindowEvent::MouseWheel", delta |-> <<"LineDelta", d[1], d[2]>>] :
            d \in LineDeltas}
    \cup {[kind |-> "WindowEvent::MouseInput", state |-> st, button |-> b] :
            st \in ElementState, b \in MouseButtons}

IsKeyboard(e) == e.kind = "WindowEvent::KeyboardInput"
HasKeyCode(e) == IsKeyboard(e) /\ e.virtual_keycode # None
KeyOf(r) == r[1].button[2]

\* convert_event is applied to an event of a window
Translate ==
    \E e \in RawEvents :
        /\ translations < MaxTranslations
        /\ translations' = translations + 1
        /\ given_event' = e
        /\ window' = window
        /\ result' = convert_event(e, window)
        /\ prev_keycode' = IF HasKeyCode(given_event) THEN given_event.virtual_keycode
                           ELSE prev_keycode
        /\ prev_key' = IF HasKeyCode(given_event) THEN Some(KeyOf(result))
                       ELSE prev_key
        /\ prev_kind' = given_event.kind
        /\ prev_input' = IF result = None THEN None ELSE Some(result[1].input)
        /\ UNCHANGED schedVars

TranslatorInit ==
    /\ SchedInit
    /\ given_event = [kind |-> "none"]
    /\ window \in Windows
    /\ result = None
    /\ prev_keycode = None
    /\ prev_key = None
    /\ prev_kind = "none"
    /\ prev_input = None
    /\ translations = 0
TranslatorNext == Translate
TranslatorSpec == TranslatorInit /\ [][TranslatorNext]_vars

Next ==
    \/ DeliverInit
    \/ DeliverResumeTimeReached
    \/ DeliverWaitCancelled
    \/ DeliverWindowEvent
    \/ DeliverDeviceEvent
    \/ Expose
    \/ DeliverMainEventsCleared
    \/ DeliverRedrawRequested
    \/ DeliverRedrawEventsCleared
    \/ Tick

Spec == Init /\ [][Next]_vars

\* What the event loop guarantees: time passes, a started batch is followed
\* by MainEventsCleared, due redraws and RedrawEventsCleared, and a wait
\* with a deadline ends when the deadline is reached.  Nothing guarantees
\* that a further window, device or OS event ever arrives.
FairSpec ==
    /\ Init /\ [][Next]_vars
    /\ WF_vars(Tick)
    /\ WF_vars(DeliverInit)
    /\ WF_vars(DeliverMainEventsCleared)
    /\ WF_vars(DeliverRedrawRequested)
    /\ WF_vars(DeliverRedrawEventsCleared)
    /\ WF_vars(DeliverResumeTimeReached)

\* ------------------------------------------------------------------------
\* Properties of run_loop
\* ------------------------------------------------------------------------
Handled == last.event # "none"
count(c) == Cardinality({i \in DOMAIN last.calls : last.calls[i] = c})
did(c) == count(c) > 0

\* C1 (as stated): of two MainEventsCleared handled less than sixteen_ms
\* apart, each with ui_update_needed true, only the first one commits,
\* whatever needs_redraw that first commit reported.
C1_OneCommitPerInterval ==
    ( /\ last.event = EvMainEventsCleared /\ ~last.should_exit /\ last.needed
      /\ last.prev_commit_event = EvMainEventsCleared
      /\ last.prev_since # None /\ unwrap(last.prev_since) < sixteen_ms )
    => ~did("SetUi")

\* C1 (amended): a commit that follows a commit which reported
\* needs_redraw = true happens at least sixteen_ms after it, so a
\* MainEventsCleared handled inside that interval never commits, even with
\* ui_update_needed true.
C1_RateLimitWhileRedrawing ==
    (did("SetUi") /\ last.prev_since # None /\ last.prev_nr)
    => unwrap(last.prev_since) >= sixteen_ms

\* a MainEventsCleared with ui_update_needed true, handled less than
\* sixteen_ms after a MainEventsCleared commit that needed a redraw, did not commit
C1_Witness ==
    /\ last.event = EvMainEventsCleared /\ ~last.should_exit /\ last.needed
    /\ last.prev_commit_event = EvMainEventsCleared /\ last.prev_nr
    /\ last.prev_since # None /\ unwrap(last.prev_since) < sixteen_ms
    /\ ~did("SetUi")

\* C2 (as stated): while no Event callback has set should_update_ui, no
\* SetUi and no request_redraw happens and the control flow is Wait after
\* every handled event, the initial NewEvents(Init) included.
C2_IdleNeverCommits ==
    (~ever_requested /\ Handled)
    => /\ ~did("SetUi")
       /\ ~did("request_redraw")
       /\ ~last.should_exit => control_flow = Wait

\* C2 (amended): while no Event callback has set should_update_ui, the only
\* commits are the one of NewEvents(Init) and those of
\* NewEvents(ResumeTimeReached) after a commit that reported
\* needs_redraw = true; MainEventsCleared never commits; request_redraw is
\* called only by a commit that reported needs_redraw = true; and after
\* every event handled without exit the control flow is Wait when the latest
\* commit reported needs_redraw = false, WaitUntil(deadline) otherwise.
C2_IdleCommitsOnlyOnInitOrTimer ==
    (~ever_requested /\ Handled /\ ~last.should_exit)
    => /\ did("SetUi") => last.event \in {EvInit, EvResumeTimeReached}
       /\ (did("SetUi") /\ last.event = EvResumeTimeReached) => last.prev_nr
       /\ did("request_redraw") => (did("SetUi") /\ last.needs_redraw)
       /\ since_commit # None
       /\ control_flow = IF commit_nr THEN WaitUntil(unwrap(next_update)) ELSE Wait

\* the idle loop is parked without a timer after a batch of events
C2_Witness ==
    /\ ~ever_requested /\ phase = "wait" /\ control_flow = Wait
    /\ last.event = EvRedrawEventsCleared /\ handled >= 3
    /\ last.prev_commit_event = EvInit

\* C3: after a commit that reported needs_redraw = true, exactly one Redraw
\* callback is invoked before any further commit: never more than one, one
\* by the end of the commit's own cycle, and one when the next commit
\* happens - counting the runs where every RedrawRequested delivered since
\* answers a request_redraw.
C3_RedrawPairing ==
    /\ (commit_nr /\ ~unrequested_redraw) => redraws_since <= 1
    /\ (commit_nr /\ phase = "wait") => redraws_since >= 1
    /\ (did("SetUi") /\ last.prev_since # None /\ last.prev_nr /\ ~last.prev_unrequested)
       => last.prev_redraws = 1

\* a further commit happened after a redraw-needing commit and its one Redraw
C3_Witness ==
    /\ did("SetUi") /\ last.prev_since # None /\ last.prev_nr
    /\ ~last.prev_unrequested /\ last.prev_redraws = 1

\* the latest instant the bounded clock reaches
LastTick == (MaxTime \div TickMs) * TickMs

\* C4: whenever ui_update_needed is true (early enough for a pending
\* deadline to lie within the clock's range), a commit eventually follows,
\* unless the loop exits.  A run refuting it ends with the event loop
\* blocked in its wait under ControlFlow::Wait (no deadline) while
\* ui_update_needed is true: the closure is not called again until some
\* new event arrives, whatever the clock does.
C4_RequestEventuallyCommitted ==
    (ui_update_needed /\ now + sixteen_ms <= LastTick)
        ~> (did("SetUi") \/ phase = "exited")

\* the part of C4 that holds: a request raised while a deadline is pending,
\* or before the MainEventsCleared of its batch, is eventually committed
C4_RequestBeforeDrainEventuallyCommitted ==
    (ui_update_needed /\ now + sixteen_ms <= LastTick
       /\ (next_update # None \/ phase = "events"))
        ~> (did("SetUi") \/ phase = "exited")

\* and ui_update_needed goes from true to false only by a commit
C4_RequestClearedOnlyByCommit ==
    [][(ui_update_needed /\ ~ui_update_needed') => did("SetUi")']_vars

\* C5 (as stated): handling NewEvents(Init) always invokes SetUi.
C5_InitAlwaysCommits ==
    last.event = EvInit => did("SetUi")

\* C5 (amended): handling NewEvents(Init) invokes SetUi unless the Event
\* callback set should_exit for it; and when the first event set
\* should_update_ui and was directly followed by MainEventsCleared, a commit
\* has happened by the end of handling that MainEventsCleared.
C5_FirstObservationCommits ==
    /\ (last.event = EvInit /\ ~last.should_exit) => did("SetUi")
    /\ ( /\ handled = 2 /\ last.event = EvMainEventsCleared
         /\ ~last.should_exit /\ first_requested )
       => since_commit # None

\* the first event requested an update and MainEventsCleared came right after
C5_Witness ==
    /\ handled = 2 /\ last.event = EvMainEventsCleared /\ ~last.should_exit
    /\ first_requested /\ since_commit # None

\* C6: SetUi is invoked only for NewEvents(Init), NewEvents(ResumeTimeReached),
\* or MainEventsCleared with next_update absent and ui_update_needed true
\* (after OR-ing in should_update_ui).
C6_CommitGuard ==
    did("SetUi") =>
        \/ last.event \in {EvInit, EvResumeTimeReached}
        \/ /\ last.event = EvMainEventsCleared
           /\ last.pre_next_update = None
           /\ last.needed

\* a MainEventsCleared made a commit on the strength of this event's own request
C6_Witness ==
    /\ did("SetUi") /\ last.event = EvMainEventsCleared
    /\ ~last.pre_ui_update_needed /\ last.should_update_ui

\* C7: when the Event callback sets should_exit the closure sets
\* ControlFlow::Exit and returns: the Event callback is the only call made,
\* next_update is left alone, and no Wait/WaitUntil is issued.
C7_ImmediateExit ==
    last.should_exit =>
        /\ control_flow = Exit
        /\ last.calls = <<"Event">>
        /\ next_update = last.pre_next_update
        /\ phase = "exited"

\* exit on a MainEventsCleared that would otherwise have committed
C7_Witness ==
    /\ last.should_exit /\ last.event = EvMainEventsCleared
    /\ last.needed /\ last.pre_next_update = None

\* C8: request_redraw is called once in an iteration that made a commit
\* reporting needs_redraw = true, and not at all in any other iteration.
C8_RedrawRequestOnlyAfterCommit ==
    Handled =>
        count("request_redraw") = IF did("SetUi") /\ last.needs_redraw THEN 1 ELSE 0

\* a commit requested a redraw
C8_Witness ==
    /\ did("SetUi") /\ last.needs_redraw /\ count("request_redraw") = 1
    /\ redraw_requested

\* a step in which the closure made a commit: every commit moves the event
\* loop to another phase of its cycle, and time and the OS leave phase alone
CommitStep == phase' # phase /\ did("SetUi")'

\* C16: at the end of an iteration that made a commit, whichever event
\* caused it, ui_update_needed is false and next_update is
\* Some(t_commit + sixteen_ms) if SetUi reported needs_redraw = true and
\* None if it reported false, t_commit being the time of the commit.
C16_PostCommitState ==
    [][CommitStep =>
          /\ last'.event \in {EvInit, EvResumeTimeReached, EvMainEventsCleared}
          /\ ui_update_needed' = FALSE
          /\ last'.needs_redraw => next_update' = <<now + 16>>
          /\ ~last'.needs_redraw => next_update' = <<>>]_vars

\* a MainEventsCleared commit that needed a redraw has just set the deadline
C16_Witness ==
    /\ did("SetUi") /\ last.event = EvMainEventsCleared /\ last.needs_redraw
    /\ ~ui_update_needed /\ next_update = Some(now + sixteen_ms)
    /\ now > 0

\* C17: after every iteration that does not exit, the control flow is
\* WaitUntil(d) exactly when next_update is Some(d) and Wait exactly when
\* next_update is None (never Poll), next_update being the value after any
\* commit of that iteration.
C17_WakeMatchesDeadline ==
    (Handled /\ ~last.should_exit) =>
        \/ next_update = <<>> /\ control_flow = <<"Wait">>
        \/ next_update # <<>> /\ control_flow = <<"WaitUntil", next_update[1]>>

\* a commit set the deadline and the same iteration asked to be woken at it
C17_Witness ==
    /\ did("SetUi") /\ last.pre_next_update = None
    /\ next_update # None /\ control_flow = WaitUntil(unwrap(next_update))

\* C18: for every event handled without exit the Event callback is invoked
\* once and first; Redraw is invoked once for RedrawRequested and not at all
\* otherwise; SetUi and Redraw are never both invoked; and handling
\* RedrawRequested leaves next_update alone, changes ui_update_needed only
\* by OR-ing in should_update_ui, and requests no redraw.
C18_CallbackPhases ==
    (Handled /\ ~last.should_exit) =>
        /\ count("Event") = 1 /\ last.calls[1] = "Event"
        /\ count("Redraw") = IF last.event = EvRedrawRequested THEN 1 ELSE 0
        /\ count("SetUi") <= 1
        /\ ~(did("SetUi") /\ did("Redraw"))
        /\ last.event = EvRedrawRequested =>
              /\ next_update = last.pre_next_update
              /\ ui_update_needed = (last.pre_ui_update_needed \/ last.should_update_ui)
              /\ ~did("SetUi") /\ ~did("request_redraw")

\* a RedrawRequested was handled while a deadline and a request were pending
C18_Witness ==
    /\ last.event = EvRedrawRequested /\ ~last.should_exit
    /\ last.calls = <<"Event", "Redraw">>
    /\ next_update # None /\ ui_update_needed

\* C19: an iteration that makes no commit (an exiting one included) leaves
\* next_update alone and sets ui_update_needed to its old value OR
\* should_update_ui; and in every step, ui_update_needed goes from true to
\* false, and next_update from None to Some or from Some to None, only by a
\* commit.
C19_StateChangesOnlyByIntakeAndCommit ==
    [][ /\ (Handled' /\ ~did("SetUi")') =>
              /\ next_update' = last'.pre_next_update
              /\ ui_update_needed' = (last'.pre_ui_update_needed \/ last'.should_update_ui)
        /\ ( \/ ui_update_needed /\ ~ui_update_needed'
             \/ (next_update = <<>>) # (next_update' = <<>>) )
           => CommitStep ]_vars

\* an exiting iteration took in a request while a deadline was pending
C19_Witness ==
    /\ last.should_exit /\ last.should_update_ui /\ ~last.pre_ui_update_needed
    /\ ui_update_needed /\ next_update # None /\ next_update = last.pre_next_update

\* C20: the commit that follows a commit which reported needs_redraw = true
\* happens at least sixteen_ms after it and is made for
\* NewEvents(ResumeTimeReached), not for MainEventsCleared, whatever
\* requests and MainEventsCleared came in between.
C20_CadenceWhileRedrawing ==
    (did("SetUi") /\ last.prev_since # None /\ last.prev_nr) =>
        /\ unwrap(last.prev_since) >= sixteen_ms
        /\ last.event = EvResumeTimeReached

\* the timer commit took up a request that had waited for the deadline
C20_Witness ==
    /\ did("SetUi") /\ last.event = EvResumeTimeReached
    /\ last.prev_since # None /\ last.prev_nr
    /\ last.pre_ui_update_needed /\ last.pre_next_update # None

\* ------------------------------------------------------------------------
\* Properties of convert_event
\* ------------------------------------------------------------------------
\* the Key the table gives for a key code: that of the arm naming the code,
\* Key::Unknown for a code no arm names
TableKey(keycode) ==
    IF keycode \in NamedKeyCodes
    THEN convert_key_arms[CHOOSE i \in 1..Len(convert_key_arms) :
                             keycode \in convert_key_arms[i].names].key
    ELSE "Unknown"

\* C9: every key code is translated to a Key: the key of the table entry
\* naming the code (A to Key::A, Key1 to Key::D1, Return to Key::Return),
\* and Key::Unknown for a code outside the table.
C9_KeyTable ==
    HasKeyCode(given_event) =>
        /\ result # None
        /\ KeyOf(result) = TableKey(unwrap(given_event.virtual_keycode))

\* C10: a KeyboardInput with key code k yields Press(Keyboard(convert_key(k)))
\* when Pressed and Release(Keyboard(convert_key(k))) when Released, and
\* None without a key code; two events whose codes the table maps to
\* different keys yield different keys.
C10_KeyboardTranslation ==
    IsKeyboard(given_event) =>
        /\ given_event.virtual_keycode = None => result = None
        /\ HasKeyCode(given_event) =>
              /\ result = Some([input |-> IF given_event.state = "Pressed"
                                          THEN "Press" ELSE "Release",
                                button |-> <<"Keyboard",
                                             convert_key(unwrap(given_event.virtual_keycode))>>])
              /\ ( /\ prev_keycode # None
                   /\ unwrap(prev_keycode) \in NamedKeyCodes
                   /\ unwrap(given_event.virtual_keycode) \in NamedKeyCodes
                   /\ TableKey(unwrap(prev_keycode))
                        # TableKey(unwrap(given_event.virtual_keycode)) )
                 => KeyOf(result) # unwrap(prev_key)

\* C11: CursorMoved at logical (x, y) in a window of logical size (w, h)
\* yields MouseCursor{x - w/2, -(y - h/2)} and Touch yields
\* xy = [x - w/2, -(y - h/2)]; window (800, 600) maps (400, 300) to (0, 0)
\* and (0, 0) to (-400, 300); and the inverse x = x' + w/2, y = h/2 - y'
\* gives the position back.  With logical = physical / scale_factor, all
\* equations are stated on physical values multiplied out by
\* 2 * scale_factor.
C11_CoordinateTransform ==
    LET sf == window.scale_factor
        W  == window.inner_size[1]
        H  == window.inner_size[2]
        Transformed(p, x, y) ==
            /\ 2 * sf * x = 2 * p[1] - W
            /\ 2 * sf * y = H - 2 * p[2]
            \* the inverse transform returns the logical position
            /\ sf * (2 * x + (W \div sf)) = 2 * p[1]
            /\ sf * ((H \div sf) - 2 * y) = 2 * p[2]
        Example(p, x, y) ==
            (window = [inner_size |-> <<px(800), px(600)>>, scale_factor |-> 1]
               /\ p = <<px(400), px(300)>>) => (x = px(0) /\ y = px(0))
        Corner(p, x, y) ==
            (window = [inner_size |-> <<px(800), px(600)>>, scale_factor |-> 1]
               /\ p = <<px(0), px(0)>>) => (x = px(-400) /\ y = px(300))
        Checked(p, x, y) == Transformed(p, x, y) /\ Example(p, x, y) /\ Corner(p, x, y)
    IN  /\ given_event.kind = "WindowEvent::CursorMoved" =>
            /\ result # None
            /\ result[1].input = "Motion" /\ result[1].motion = "MouseCursor"
            /\ Checked(given_event.position, result[1].x, result[1].y)
        /\ given_event.kind = "WindowEvent::Touch" =>
            /\ result # None
            /\ result[1].input = "Touch"
            /\ Checked(given_event.location, result[1].xy[1], result[1].xy[2])

\* the cursor at the top-left corner of the 800 x 600 window
C11_Witness ==
    /\ given_event.kind = "WindowEvent::CursorMoved"
    /\ given_event.position = <<px(0), px(0)>>
    /\ window = [inner_size |-> <<px(800), px(600)>>, scale_factor |-> 1]
    /\ result = Some([input |-> "Motion", motion |-> "MouseCursor",
                      x |-> px(-400), y |-> px(300)])

\* C12: a MouseWheel PixelDelta of logical (dx, dy) yields Scroll{dx, -dy}
\* and a LineDelta (lx, ly) yields Scroll{10 * lx, -10 * ly}, whatever the
\* window's size; pixel delta (0, -5) gives (0, 5) and line delta (1, 1)
\* gives (10, -10).  The pixel equations are stated on the physical delta,
\* multiplied out by the scale factor.
C12_ScrollTranslation ==
    given_event.kind = "WindowEvent::MouseWheel" =>
        LET d  == given_event.delta
            sf == window.scale_factor
        IN  /\ result # None
            /\ result[1].input = "Motion" /\ result[1].motion = "Scroll"
            /\ d[1] = "PixelDelta" =>
                  /\ sf * result[1].x = d[2]
                  /\ sf * result[1].y = -d[3]
                  /\ (sf = 1 /\ d = <<"PixelDelta", px(0), px(-5)>>)
                        => (result[1].x = px(0) /\ result[1].y = px(5))
            /\ d[1] = "LineDelta" =>
                  /\ result[1].x = 10 * d[2]
                  /\ result[1].y = -(10 * d[3])
                  /\ d = <<"LineDelta", px(1), px(1)>>
                        => (result[1].x = px(10) /\ result[1].y = px(-10))

\* the line delta (1, 1) was translated in the window whose logical width is 400.5
C12_Witness ==
    /\ given_event = [kind |-> "WindowEvent::MouseWheel",
                      delta |-> <<"LineDelta", px(1), px(1)>>]
    /\ window.inner_size = <<px(801), px(600)>>
    /\ result = Some([input |-> "Motion", motion |-> "Scroll",
                      x |-> px(10), y |-> px(-10)])

\* C13: ReceivedCharacter(c) always yields Some(Text(s)): s is empty when c
\* is carriage return, line feed, tab, delete (U+007F), escape (U+001B) or
\* backspace (U+0008), and is the one-character string c otherwise.
C13_CharacterInput ==
    given_event.kind = "WindowEvent::ReceivedCharacter" =>
        /\ result # None
        /\ result[1].input = "Text"
        /\ result[1].string = IF given_event.ch \in {13, 10, 9, 127, 27, 8}
                              THEN <<>> ELSE <<given_event.ch>>

\* backspace was translated to the empty text
C13_Witness ==
    /\ given_event = [kind |-> "WindowEvent::ReceivedCharacter", ch |-> 8]
    /\ result = Some([input |-> "Text", string |-> <<>>])

\* C14: Left, Right, Middle map to the buttons of the same name, Other(0..4)
\* to X1, X2, Button6, Button7, Button8 and every other Other(n) to Unknown;
\* MouseInput yields Press(Mouse(b)) when Pressed and Release(Mouse(b)) when
\* Released.
C14_MouseButtons ==
    given_event.kind = "WindowEvent::MouseInput" =>
        LET b == given_event.button
            expected ==
                IF b[1] # "Other" THEN b[1]
                ELSE IF b[2] = 0 THEN "X1"
                ELSE IF b[2] = 1 THEN "X2"
                ELSE IF b[2] = 2 THEN "Button6"
                ELSE IF b[2] = 3 THEN "Button7"
                ELSE IF b[2] = 4 THEN "Button8"
                ELSE "Unknown"
        IN  /\ result # None
            /\ result[1].button = <<"Mouse", expected>>
            /\ given_event.state = "Pressed" => result[1].input = "Press"
            /\ given_event.state = "Released" => result[1].input = "Release"

\* the release of the extra button 4 was translated
C14_Witness ==
    /\ given_event = [kind |-> "WindowEvent::MouseInput", state |-> "Released",
                      button |-> <<"Other", 4>>]
    /\ result = Some([input |-> "Release", button |-> <<"Mouse", "Button8">>])

\* the window events convert_event translates
TranslatedKinds ==
    {"WindowEvent::Resized", "WindowEvent::ReceivedCharacter", "WindowEvent::Focused",
     "WindowEvent::KeyboardInput", "WindowEvent::Touch", "WindowEvent::CursorMoved",
     "WindowEvent::MouseWheel", "WindowEvent::MouseInput"}

\* convert_event returns None exactly for an event that is not one of the
\* translated window events or is a KeyboardInput without a key code
NoneExactlyForUnmodeled ==
    translations > 0 =>
        (result = None <=>
            \/ given_event.kind \notin TranslatedKinds
            \/ IsKeyboard(given_event) /\ given_event.virtual_keycode = None)

\* C15 (as stated): None exactly for unmodeled input, and otherwise Some
\* event whose variant is determined by the raw event kind alone: two
\* translated events of the same kind yield the same variant.
C15_VariantByKindAlone ==
    /\ NoneExactlyForUnmodeled
    /\ (prev_kind = given_event.kind /\ prev_input # None /\ result # None)
          => unwrap(prev_input) = result[1].input

\* C15 (amended): None exactly for unmodeled input, and otherwise Some event
\* whose variant is determined by the raw event kind, together with the
\* element state for KeyboardInput and MouseInput (Pressed gives Press,
\* Released gives Release).
C15_NoneOnlyForUnmodeled ==
    /\ NoneExactlyForUnmodeled
    /\ result # None =>
          result[1].input =
             CASE given_event.kind = "WindowEvent::Resized" -> "Resize"
               [] given_event.kind = "WindowEvent::ReceivedCharacter" -> "Text"
               [] given_event.kind = "WindowEvent::Focused" -> "Focus"
               [] given_event.kind = "WindowEvent::Touch" -> "Touch"
               [] given_event.kind \in {"WindowEvent::CursorMoved", "WindowEvent::MouseWheel"} -> "Motion"
               [] given_event.kind \in {"WindowEvent::KeyboardInput", "WindowEvent::MouseInput"} ->
                     IF given_event.state = "Pressed" THEN "Press" ELSE "Release"

\* a KeyboardInput without a key code was dropped after a window event
\* outside the translated kinds was
C15_Witness ==
    /\ IsKeyboard(given_event) /\ given_event.virtual_keycode = None
    /\ result = None
    /\ prev_kind = "WindowEvent::CloseRequested" /\ prev_input = None

TypeOK ==
    /\ ui_update_needed \in BOOLEAN
    /\ phase \in {"start", "events", "redraw", "wait", "exited"}
    /\ now \in 0..MaxTime
====
